---- MODULE Spec2Model ----
(***************************************************************************)
(* Request dispatcher and response encoders of nsncd (src/handlers.rs).    *)
(*                                                                         *)
(* Numbers.  u32, i32 and usize values are pairs <<hi, lo>> of 16-bit      *)
(* limbs standing for hi * 65536 + lo, so that values at and beyond 2^31   *)
(* and 2^32 are computed exactly.                                          *)
(*                                                                         *)
(* Bytes.  A byte string is a sequence of atoms.  An atom 0..255 is that   *)
(* byte; a negative atom -n abbreviates n consecutive bytes 0x41, so that  *)
(* fields of 2^31 - 1 bytes can be written down.                           *)
(***************************************************************************)
EXTENDS Integers, Sequences, FiniteSets, TLC

VARIABLES passwd_db, group_db, endian, atoi_signed, pc, call, ret, queries

vars == <<passwd_db, group_db, endian, atoi_signed, pc, call, ret, queries>>

----------------------------------------------------------------------------
(* Bounds of the model *)

\* keys of every length up to MaxKeyLen over KeyAlphabet are requested
MaxKeyLen == 2

----------------------------------------------------------------------------
(* Fixed-width numbers as 16-bit limb pairs *)

LIMB == 65536

\* i32::MAX = 2^31 - 1 has high limb 32767, u32::MAX = 2^32 - 1 has 65535
I32_MAX_HI == 32767

U32_MAX_HI == 65535

Num(n) == <<n \div LIMB, n % LIMB>>

NumAdd(a, b) ==
    LET lo == a[2] + b[2]
    IN  <<a[1] + b[1] + (lo \div LIMB), lo % LIMB>>

RECURSIVE NumSum(_)
NumSum(s) == IF s = <<>> THEN Num(0) ELSE NumAdd(Head(s), NumSum(Tail(s)))

\* Result<T, E>
Ok(v) == [ok |-> TRUE, val |-> v, err |-> "none"]

Err(e) == [ok |-> FALSE, val |-> <<>>, err |-> e]

\* Option<T>
None == [some |-> FALSE]

Some(v) == [some |-> TRUE, val |-> v]

\* mutant: the length cast with `as i32`, which keeps the low 32 bits
try_into_wrapping(n) == Ok(<<n[1] % LIMB, n[2]>>)

\* usize -> i32 (c_int) conversion of a length
try_into(n) == IF n[1] <= I32_MAX_HI THEN Ok(n) ELSE Err("TryFromIntError")

\* the four bytes of a 32-bit value in the byte order of the build target
to_ne_bytes(w) ==
    LET le == <<w[2] % 256, w[2] \div 256, w[1] % 256, w[1] \div 256>>
    IN  IF endian = "little" THEN le ELSE <<le[4], le[3], le[2], le[1]>>

----------------------------------------------------------------------------
(* Byte strings *)

AtomLen(a) == IF a < 0 THEN Num(-a) ELSE Num(1)

\* slice.len()
RECURSIVE len(_)
len(s) ==
    IF Len(s) = 0 THEN Num(0)
    ELSE IF Len(s) = 1 THEN AtomLen(s[1])
    ELSE LET h == Len(s) \div 2
         IN  NumAdd(len(SubSeq(s, 1, h)), len(SubSeq(s, h + 1, Len(s))))

HasNul(s) == \E i \in 1..Len(s) : s[i] = 0

\* CString::new: the bytes must hold no nul
CString_new(s) == IF HasNul(s) THEN Err("NulError") ELSE Ok(s)

\* mutant: the bytes without their terminator (CString::to_bytes)
to_bytes_without_nul(s) == s

\* CString::to_bytes_with_nul
to_bytes_with_nul(s) == Append(s, 0)

\* the text before the first nul of s, all of s when it holds none
RECURSIVE UntilNul(_)
UntilNul(s) ==
    IF s = <<>> \/ Head(s) = 0 THEN <<>> ELSE <<Head(s)>> \o UntilNul(Tail(s))

\* mutant: the key read up to its first nul, terminated or not
from_bytes_until_nul(key) ==
    IF key = <<>> THEN Err("FromBytesWithNulError") ELSE Ok(UntilNul(key))

\* CStr::from_bytes_with_nul: exactly one nul, and it is the last byte.
\* The value is the text before the nul (CStr::to_bytes).
from_bytes_with_nul(key) ==
    IF key = <<>> \/ key[Len(key)] # 0 \/ HasNul(SubSeq(key, 1, Len(key) - 1))
    THEN Err("FromBytesWithNulError")
    ELSE Ok(SubSeq(key, 1, Len(key) - 1))

InRange(b, lo, hi) == lo <= b /\ b <= hi

Cont(s, i) == i <= Len(s) /\ InRange(s[i], 128, 191)

\* core::str::from_utf8 validity, from position i on
RECURSIVE Utf8From(_, _)
Utf8From(s, i) ==
    IF i > Len(s) THEN TRUE
    ELSE LET b == s[i] IN
         IF b < 128 THEN Utf8From(s, i + 1)
         ELSE IF InRange(b, 194, 223)
              THEN Cont(s, i + 1) /\ Utf8From(s, i + 2)
         ELSE IF InRange(b, 224, 239)
              THEN /\ Cont(s, i + 1) /\ Cont(s, i + 2)
                   /\ (b = 224 => s[i + 1] >= 160)
                   /\ (b = 237 => s[i + 1] <= 159)
                   /\ Utf8From(s, i + 3)
         ELSE IF InRange(b, 240, 244)
              THEN /\ Cont(s, i + 1) /\ Cont(s, i + 2) /\ Cont(s, i + 3)
                   /\ (b = 240 => s[i + 1] >= 144)
                   /\ (b = 244 => s[i + 1] <= 143)
                   /\ Utf8From(s, i + 4)
         ELSE FALSE

\* CStr::to_str
to_str(s) == IF Utf8From(s, 1) THEN Ok(s) ELSE Err("Utf8Error")

IsDigit(b) == InRange(b, 48, 57)

\* checked_mul(10) then checked_add(d) on u32
CheckedMul10Add(n, d) ==
    LET lo == n[2] * 10 + d
        hi == n[1] * 10 + (lo \div LIMB)
    IN  IF hi <= U32_MAX_HI THEN Some(<<hi, lo % LIMB>>) ELSE None

CheckedMul10Sub(n, d) == IF n = Num(0) /\ d = 0 THEN Some(n) ELSE None

\* the digit loop of from_radix_10(_signed)_checked: <<Option<u32>, index>>,
\* index counting the bytes used
RECURSIVE Radix10(_, _, _, _)
Radix10(s, i, acc, minus) ==
    IF i > Len(s) \/ ~IsDigit(s[i]) THEN <<acc, i - 1>>
    ELSE LET d == s[i] - 48
             nxt == IF ~acc.some THEN None
                    ELSE IF minus THEN CheckedMul10Sub(acc.val, d)
                    ELSE CheckedMul10Add(acc.val, d)
         IN  Radix10(s, i + 1, nxt, minus)

\* atoi::<u32>: Some(n) when the text starts with a number that fits, the
\* bytes after the number are ignored; a build with a sign-aware atoi takes
\* one leading '+' or '-' first
atoi(s) ==
    LET signed == atoi_signed /\ s # <<>> /\ s[1] \in {43, 45}
        minus  == signed /\ s[1] = 45
        r      == Radix10(s, IF signed THEN 2 ELSE 1, Some(Num(0)), minus)
    IN  IF r[2] = 0 \/ ~r[1].some THEN None ELSE r[1]

----------------------------------------------------------------------------
(* protocol: response headers *)

\* protocol::VERSION
VERSION == 2

\* PwResponseHeader::default(): every field zero
PwResponseHeader_default ==
    [version |-> Num(0), found |-> Num(0), pw_name_len |-> Num(0),
     pw_passwd_len |-> Num(0), pw_uid |-> Num(0), pw_gid |-> Num(0),
     pw_gecos_len |-> Num(0), pw_dir_len |-> Num(0), pw_shell_len |-> Num(0)]

\* PwResponseHeader::as_slice(): the struct's memory, fields in declaration order
PwResponseHeader_as_slice(h) ==
    to_ne_bytes(h.version) \o to_ne_bytes(h.found) \o to_ne_bytes(h.pw_name_len)
    \o to_ne_bytes(h.pw_passwd_len) \o to_ne_bytes(h.pw_uid) \o to_ne_bytes(h.pw_gid)
    \o to_ne_bytes(h.pw_gecos_len) \o to_ne_bytes(h.pw_dir_len)
    \o to_ne_bytes(h.pw_shell_len)

\* GrResponseHeader::default()
GrResponseHeader_default ==
    [version |-> Num(0), found |-> Num(0), gr_name_len |-> Num(0),
     gr_passwd_len |-> Num(0), gr_gid |-> Num(0), gr_mem_cnt |-> Num(0)]

\* GrResponseHeader::as_slice()
GrResponseHeader_as_slice(h) ==
    to_ne_bytes(h.version) \o to_ne_bytes(h.found) \o to_ne_bytes(h.gr_name_len)
    \o to_ne_bytes(h.gr_passwd_len) \o to_ne_bytes(h.gr_gid)
    \o to_ne_bytes(h.gr_mem_cnt)

----------------------------------------------------------------------------
(* serialize_user *)

\* the first error of a sequence of Results, or Ok of their values
RECURSIVE Collect(_)
Collect(rs) ==
    IF rs = <<>> THEN Ok(<<>>)
    ELSE IF ~Head(rs).ok THEN Err(Head(rs).err)
    ELSE LET rest == Collect(Tail(rs))
         IN  IF rest.ok THEN Ok(<<Head(rs).val>> \o rest.val) ELSE rest

\* mutant: the not-found header carries the protocol version
serialize_user_none_versioned ==
    Ok(PwResponseHeader_as_slice(
          [PwResponseHeader_default EXCEPT !.version = Num(VERSION)]))

\* the else branch: no such user
serialize_user_none == Ok(PwResponseHeader_as_slice(PwResponseHeader_default))

serialize_user(user) ==
    IF ~user.some
    THEN serialize_user_none
    ELSE
    LET data   == user.val
        cstrs  == Collect(<<CString_new(data.name), CString_new(data.dir),
                            CString_new(data.shell)>>)
    IN  IF ~cstrs.ok THEN Err(cstrs.err) ELSE
    LET name_bytes   == to_bytes_with_nul(cstrs.val[1])
        passwd_bytes == to_bytes_with_nul(data.passwd)
        gecos_bytes  == to_bytes_with_nul(data.gecos)
        dir_bytes    == to_bytes_with_nul(cstrs.val[2])
        shell_bytes  == to_bytes_with_nul(cstrs.val[3])
        lens == Collect(<<try_into(len(name_bytes)), try_into(len(passwd_bytes)),
                          try_into(len(gecos_bytes)), try_into(len(dir_bytes)),
                          try_into(len(shell_bytes))>>)
    IN  IF ~lens.ok THEN Err(lens.err) ELSE
    LET header == [version |-> Num(VERSION), found |-> Num(1),
                   pw_name_len |-> lens.val[1], pw_passwd_len |-> lens.val[2],
                   pw_uid |-> data.uid, pw_gid |-> data.gid,
                   pw_gecos_len |-> lens.val[3], pw_dir_len |-> lens.val[4],
                   pw_shell_len |-> lens.val[5]]
    IN  Ok(PwResponseHeader_as_slice(header) \o name_bytes \o passwd_bytes
           \o gecos_bytes \o dir_bytes \o shell_bytes)

----------------------------------------------------------------------------
(* serialize_group *)

\* A member list is a sequence of entries [name, times]: `times` consecutive
\* members called `name`.

\* Vec::len() of the member list
mem_len(mem) == NumSum([i \in 1..Len(mem) |-> Num(mem[i].times)])

\* the members one by one, in order
RECURSIVE mem_iter(_)
mem_iter(mem) ==
    IF mem = <<>> THEN <<>>
    ELSE IF Head(mem).times = 1 THEN <<Head(mem).name>> \o mem_iter(Tail(mem))
    ELSE <<Head(mem).name>>
         \o mem_iter(<<[Head(mem) EXCEPT !.times = @ - 1]>> \o Tail(mem))

RECURSIVE Flatten(_)
Flatten(ss) == IF ss = <<>> THEN <<>> ELSE Head(ss) \o Flatten(Tail(ss))

\* mutant: the password of the looked-up record
gr_passwd_of_record(data) == CString_new(data.passwd)

\* the group's password as sent: always "x"
gr_passwd(data) == CString_new(<<120>>)

serialize_group(group) ==
    IF ~group.some
    THEN Ok(GrResponseHeader_as_slice(GrResponseHeader_default))
    ELSE
    LET data    == group.val
        name    == CString_new(data.name)
        passwd  == gr_passwd(data)
        members == Collect([i \in 1..Len(data.mem) |-> CString_new(data.mem[i].name)])
    IN  IF ~name.ok THEN Err(name.err)
        ELSE IF ~passwd.ok THEN Err(passwd.err)
        ELSE IF ~members.ok THEN Err(members.err) ELSE
    LET name_bytes   == to_bytes_with_nul(name.val)
        passwd_bytes == to_bytes_with_nul(passwd.val)
        hlens == Collect(<<try_into(len(name_bytes)), try_into(len(passwd_bytes)),
                           try_into(mem_len(data.mem))>>)
    IN  IF ~hlens.ok THEN Err(hlens.err) ELSE
    LET members_bytes == [i \in 1..Len(mem_iter(data.mem)) |->
                             to_bytes_with_nul(mem_iter(data.mem)[i])]
        header == [version |-> Num(VERSION), found |-> Num(1),
                   gr_name_len |-> hlens.val[1], gr_passwd_len |-> hlens.val[2],
                   gr_gid |-> data.gid, gr_mem_cnt |-> hlens.val[3]]
        mlens  == Collect([i \in 1..Len(members_bytes) |->
                             try_into(len(members_bytes[i]))])
    IN  IF ~mlens.ok THEN Err(mlens.err) ELSE
        Ok(GrResponseHeader_as_slice(header)
           \o Flatten([i \in 1..Len(mlens.val) |-> to_ne_bytes(mlens.val[i])])
           \o name_bytes \o passwd_bytes \o Flatten(members_bytes))

----------------------------------------------------------------------------
(* Identity database (nix::unistd::User / Group over the system's NSS) *)

\* "a": uid 1, gid 1
UserA ==
    [name |-> <<97>>, passwd |-> <<120>>, uid |-> Num(1), gid |-> Num(1),
     gecos |-> <<>>, dir |-> <<47, 97>>, shell |-> <<47, 115>>]

\* a user whose name is the numeral "1": uid 11, gid 2^32 - 1
User1 ==
    [name |-> <<49>>, passwd |-> <<>>, uid |-> Num(11), gid |-> <<65535, 65535>>,
     gecos |-> <<49, 32, 49>>, dir |-> <<47>>, shell |-> <<>>]

UserPool == {UserA, User1}

Member(name) == [name |-> name, times |-> 1]

\* "a": gid 1, members b, a, c
GroupA ==
    [name |-> <<97>>, passwd |-> <<33>>, gid |-> Num(1),
     mem |-> <<Member(<<98>>), Member(<<97>>), Member(<<99>>)>>]

\* a group whose name is the numeral "1": gid 11, no members
Group1 ==
    [name |-> <<49>>, passwd |-> <<120>>, gid |-> Num(11), mem |-> <<>>]

GroupPool == {GroupA, Group1}

\* the entry found, if any: entries is empty or holds the one entry that fits
Find(entries) == IF entries = {} THEN None ELSE Some(CHOOSE e \in entries : TRUE)

\* User::from_uid, User::from_name, Group::from_gid, Group::from_name:
\* Err(errno) when the query fails, else Ok(Some(entry)) or Ok(None)
\* mutant: the id compared with the entries' group ids
User_from_uid_by_gid(uid, dbfail) ==
    IF dbfail THEN Err("Errno")
    ELSE Ok(Find({e \in passwd_db : e.gid = uid}))

User_from_uid(uid, dbfail) ==
    IF dbfail THEN Err("Errno")
    ELSE Ok(Find({e \in passwd_db : e.uid = uid}))

User_from_name(name, dbfail) ==
    IF dbfail THEN Err("Errno")
    ELSE Ok(Find({e \in passwd_db : e.name = name}))

Group_from_gid(gid, dbfail) ==
    IF dbfail THEN Err("Errno")
    ELSE Ok(Find({e \in group_db : e.gid = gid}))

Group_from_name(name, dbfail) ==
    IF dbfail THEN Err("Errno")
    ELSE Ok(Find({e \in group_db : e.name = name}))

----------------------------------------------------------------------------
(* handle_request *)

Implemented == {"GETPWBYNAME", "GETPWBYUID", "GETGRBYNAME", "GETGRBYGID"}

Unimplemented ==
    {"GETHOSTBYADDR", "GETHOSTBYADDRv6", "GETHOSTBYNAME", "GETHOSTBYNAMEv6",
     "SHUTDOWN", "GETSTAT", "INVALIDATE", "GETFDPW", "GETFDGR", "GETFDHST",
     "GETAI", "GETSERVBYNAME", "GETSERVBYPORT", "GETFDSERV", "GETFDNETGR",
     "GETNETGRENT", "INNETGR", "LASTREQ", "INITGROUPS"}

RequestType == Implemented \cup Unimplemented

\* what one call does: its return value and the number of identity-database
\* queries it made
Outcome(res, n) == [res |-> res, queries |-> n]

\* the encoder of a record kind
serialize(kind, found) ==
    IF kind = "user" THEN serialize_user(found) ELSE serialize_group(found)

\* mutant: a failed lookup answered as "not found"
Encode_downgrading(lookup, kind) ==
    IF ~lookup.ok THEN Outcome(serialize(kind, None), 1)
    ELSE Outcome(serialize(kind, lookup.val), 1)

\* mutant: a failed lookup tried a second time
Encode_retrying(lookup, kind) ==
    IF ~lookup.ok THEN Outcome(Err(lookup.err), 2)
    ELSE Outcome(serialize(kind, lookup.val), 1)

\* `lookup?` followed by the encoder
Encode(lookup, kind) ==
    IF ~lookup.ok THEN Outcome(Err(lookup.err), 1)
    ELSE Outcome(serialize(kind, lookup.val), 1)

GETPWBYUID(key, dbfail) ==
    LET cstr == from_bytes_with_nul(key) IN
    IF ~cstr.ok THEN Outcome(Err(cstr.err), 0) ELSE
    LET uid == atoi(cstr.val) IN
    IF ~uid.some THEN Outcome(Err("invalid uid string"), 0)
    ELSE Encode(User_from_uid(uid.val, dbfail), "user")

GETPWBYNAME(key, dbfail) ==
    LET cstr == from_bytes_with_nul(key) IN
    IF ~cstr.ok THEN Outcome(Err(cstr.err), 0) ELSE
    LET name == to_str(cstr.val) IN
    IF ~name.ok THEN Outcome(Err(name.err), 0)
    ELSE Encode(User_from_name(name.val, dbfail), "user")

GETGRBYGID(key, dbfail) ==
    LET cstr == from_bytes_with_nul(key) IN
    IF ~cstr.ok THEN Outcome(Err(cstr.err), 0) ELSE
    LET gid == atoi(cstr.val) IN
    IF ~gid.some THEN Outcome(Err("invalid gid string"), 0)
    ELSE Encode(Group_from_gid(gid.val, dbfail), "group")

GETGRBYNAME(key, dbfail) ==
    LET cstr == from_bytes_with_nul(key) IN
    IF ~cstr.ok THEN Outcome(Err(cstr.err), 0) ELSE
    LET name == to_str(cstr.val) IN
    IF ~name.ok THEN Outcome(Err(name.err), 0)
    ELSE Encode(Group_from_name(name.val, dbfail), "group")

\* mutant: the key of a request that is not implemented is checked as well
Unimplemented_checking_key(key) ==
    LET cstr == from_bytes_with_nul(key) IN
    IF ~cstr.ok THEN Outcome(Err(cstr.err), 0) ELSE Outcome(Ok(<<>>), 0)

\* the arm shared by the request types that are not implemented
Unimplemented_arm(key) == Outcome(Ok(<<>>), 0)

handle_request(ty, key, dbfail) ==
    CASE ty = "GETPWBYUID"  -> GETPWBYUID(key, dbfail)
      [] ty = "GETPWBYNAME" -> GETPWBYNAME(key, dbfail)
      [] ty = "GETGRBYGID"  -> GETGRBYGID(key, dbfail)
      [] ty = "GETGRBYNAME" -> GETGRBYNAME(key, dbfail)
      [] ty \in Unimplemented -> Unimplemented_arm(key)

----------------------------------------------------------------------------
(* Inputs *)

\* nul, '1' and 'a'
KeyAlphabet == {0, 49, 97}

SeqsUpTo(S, n) == UNION {[1..k -> S] : k \in 0..n}

\* longer keys: "11", "1a", "01", "+11", "-00", "-11", 2^32 - 1, 2^32,
\* 42949672950, a two-byte UTF-8 character, its first byte alone, a byte
\* that is no UTF-8 with and without terminator, a nul inside the text
SpecialKeys ==
    {<<49, 49, 0>>, <<49, 97, 0>>, <<48, 49, 0>>, <<43, 49, 49, 0>>,
     <<45, 48, 48, 0>>, <<45, 49, 49, 0>>,
     <<52, 50, 57, 52, 57, 54, 55, 50, 57, 53, 0>>,
     <<52, 50, 57, 52, 57, 54, 55, 50, 57, 54, 0>>,
     <<52, 50, 57, 52, 57, 54, 55, 50, 57, 53, 48, 0>>,
     <<195, 169, 0>>, <<195, 0>>, <<255, 0>>, <<255>>, <<97, 0, 49, 0>>,
     <<49, 0, 0>>}

Keys == SeqsUpTo(KeyAlphabet, MaxKeyLen) \cup SpecialKeys

\* 2^31 - 1 bytes: one more than a length field holds once terminated
Huge == <<-2147483647>>

\* 2^31 - 2 bytes: the longest text whose terminated length fits
Longest == <<-2147483646>>

UserInputs ==
    [name   : {<<97>>, <<97, 0, 98>>, Huge},
     passwd : {<<120>>, <<>>, Huge},
     uid    : {Num(0), <<65535, 65535>>},
     gid    : {<<1, 2>>},
     gecos  : {<<>>, <<97, 32, 98>>, Huge},
     dir    : {<<47>>, <<47, 0>>, Huge},
     shell  : {<<47, 115>>, <<0>>, Longest, Huge}]

MemInputs ==
    {<<>>,
     <<Member(<<98>>)>>,
     <<Member(<<98>>), Member(<<97>>), Member(<<99>>)>>,
     <<Member(<<97>>), Member(<<99>>), Member(<<97>>)>>,
     <<[name |-> <<99>>, times |-> 2], Member(<<>>)>>,
     <<Member(<<98>>), Member(<<0, 97>>)>>,
     <<Member(<<98>>), Member(Huge)>>,
     <<Member(Longest), Member(<<98>>)>>,
     <<[name |-> <<97>>, times |-> 2147483647], Member(<<98>>)>>}

GroupInputs ==
    [name   : {<<97>>, <<0>>, Huge},
     passwd : {<<120>>, <<33, 33>>},
     gid    : {Num(0), <<65535, 65535>>},
     mem    : MemInputs]

----------------------------------------------------------------------------
(* The state machine *)

NoCall == [op |-> "none"]

NoRet == [ok |-> FALSE, val |-> <<>>, err |-> "pending"]

Init ==
    /\ passwd_db \in SUBSET UserPool
    /\ group_db \in SUBSET GroupPool
    /\ endian \in {"little", "big"}
    /\ atoi_signed \in BOOLEAN
    /\ pc = "idle"
    /\ call = NoCall
    /\ ret = NoRet
    /\ queries = 0

\* the transport layer calls handle_request with a decoded request
HandleRequest(ty, key, dbfail) ==
    /\ pc = "idle"
    /\ pc' = "done"
    /\ call' = [op |-> "handle_request", ty |-> ty, key |-> key, dbfail |-> dbfail]
    /\ ret' = handle_request(ty, key, dbfail).res
    /\ queries' = handle_request(ty, key, dbfail).queries
    /\ UNCHANGED <<passwd_db, group_db, endian, atoi_signed>>

\* serialize_user called on a lookup result
SerializeUser(user) ==
    /\ pc = "idle"
    /\ pc' = "done"
    /\ call' = [op |-> "serialize_user", arg |-> user]
    /\ ret' = serialize_user(user)
    /\ queries' = 0
    /\ UNCHANGED <<passwd_db, group_db, endian, atoi_signed>>

\* serialize_group called on a lookup result
SerializeGroup(group) ==
    /\ pc = "idle"
    /\ pc' = "done"
    /\ call' = [op |-> "serialize_group", arg |-> group]
    /\ ret' = serialize_group(group)
    /\ queries' = 0
    /\ UNCHANGED <<passwd_db, group_db, endian, atoi_signed>>

\* the caller takes the result
Return ==
    /\ pc = "done"
    /\ pc' = "idle"
    /\ call' = NoCall
    /\ ret' = NoRet
    /\ queries' = 0
    /\ UNCHANGED <<passwd_db, group_db, endian, atoi_signed>>

\* the system's user database gains or loses an entry
PasswdChange(u) ==
    /\ passwd_db' = IF u \in passwd_db THEN passwd_db \ {u} ELSE passwd_db \cup {u}
    /\ UNCHANGED <<group_db, endian, atoi_signed, pc, call, ret, queries>>

\* the system's group database gains or loses an entry
GroupChange(g) ==
    /\ group_db' = IF g \in group_db THEN group_db \ {g} ELSE group_db \cup {g}
    /\ UNCHANGED <<passwd_db, endian, atoi_signed, pc, call, ret, queries>>

Next ==
    \/ \E ty \in RequestType, key \in Keys, dbfail \in BOOLEAN :
          HandleRequest(ty, key, dbfail)
    \/ \E user \in {None} \cup {Some(u) : u \in UserInputs \cup UserPool} :
          SerializeUser(user)
    \/ \E group \in {None} \cup {Some(g) : g \in GroupInputs \cup GroupPool} :
          SerializeGroup(group)
    \/ Return
    \/ \E u \in UserPool : PasswdChange(u)
    \/ \E g \in GroupPool : GroupChange(g)

Spec == Init /\ [][Next]_vars

----------------------------------------------------------------------------
(* Properties: the dispatcher's handling of keys *)

Handled == pc = "done" /\ call.op = "handle_request"

\* the error taxonomy: what the key checks raise
MalformedKey ==
    {"FromBytesWithNulError", "Utf8Error", "invalid uid string", "invalid gid string"}

ById == {"GETPWBYUID", "GETGRBYGID"}

ByName == {"GETPWBYNAME", "GETGRBYNAME"}

NulTerminated(key) == key # <<>> /\ key[Len(key)] = 0

\* the bytes of a key before its last byte
Text(key) == SubSeq(key, 1, Len(key) - 1)

RECURSIVE StripZeros(_)
StripZeros(t) == IF t # <<>> /\ Head(t) = 48 THEN StripZeros(Tail(t)) ELSE t

\* a and b are digit strings of one length, and a <= b as numbers
RECURSIVE DigitsLeq(_, _)
DigitsLeq(a, b) ==
    \/ a = <<>>
    \/ Head(a) < Head(b)
    \/ Head(a) = Head(b) /\ DigitsLeq(Tail(a), Tail(b))

\* t is, as a whole, a decimal numeral of a value in 0 .. 2^32 - 1
WholeNumeral(t) ==
    /\ t # <<>>
    /\ \A i \in 1..Len(t) : t[i] \in 48..57
    /\ LET d == StripZeros(t)
       IN  \/ Len(d) < 10
           \/ Len(d) = 10 /\ DigitsLeq(d, <<52, 50, 57, 52, 57, 54, 55, 50, 57, 53>>)

\* C1: a request of a type that is not implemented succeeds with an empty
\* buffer, whatever its key
C1_UnimplementedEmpty ==
    (Handled /\ call.ty \in Unimplemented) => (ret.ok /\ ret.val = <<>>)

\* C1 witness: a shutdown request whose key has no terminator was answered
\* with the empty buffer
C1_Witness ==
    /\ Handled /\ call.ty = "SHUTDOWN" /\ call.key = <<255>>
    /\ ret = Ok(<<>>)

\* C2 as stated: for every request type, a key that does not end with a nul
\* byte fails with MalformedKey
C2_AnyTypeUnterminatedFails ==
    (Handled /\ ~NulTerminated(call.key)) => (~ret.ok /\ ret.err \in MalformedKey)

\* C2: for the four implemented request types, a key that does not end with
\* a nul byte fails with MalformedKey and no query is made
C2_ImplementedUnterminatedFails ==
    (Handled /\ call.ty \in Implemented /\ ~NulTerminated(call.key))
        => (~ret.ok /\ ret.err \in MalformedKey /\ queries = 0)

\* C2 witness: a group-by-id request for "1" without terminator failed
C2_Witness ==
    /\ Handled /\ call.ty = "GETGRBYGID" /\ call.key = <<49>>
    /\ ~ret.ok /\ ret.err = "FromBytesWithNulError"

\* C3: a user-by-id or group-by-id request fails with MalformedKey, and no
\* lookup is made, unless the key's bytes before the terminating nul are, as
\* a whole, a decimal numeral of a value in 0 .. 2^32 - 1
C3_NonNumeralFails ==
    (Handled /\ call.ty \in ById
        /\ ~(NulTerminated(call.key) /\ WholeNumeral(Text(call.key))))
        => (~ret.ok /\ ret.err \in MalformedKey /\ queries = 0)

----------------------------------------------------------------------------
(* Properties: lookups and their answers *)

\* a step in which a call is made and runs to its end
Calls(op) == pc = "idle" /\ pc' = "done" /\ call'.op = op

\* the key passes every check the dispatcher makes for the request type
Accepted(ty, key) ==
    /\ NulTerminated(key)
    /\ ~HasNul(Text(key))
    /\ ty \in ByName => Utf8From(Text(key), 1)
    /\ ty \in ById => atoi(Text(key)).some

\* the entries of the databases pdb (users) and gdb (groups) the key names
Matches(ty, key, pdb, gdb) ==
    CASE ty = "GETPWBYUID"  -> {e \in pdb : e.uid = atoi(Text(key)).val}
      [] ty = "GETPWBYNAME" -> {e \in pdb : e.name = Text(key)}
      [] ty = "GETGRBYGID"  -> {e \in gdb : e.gid = atoi(Text(key)).val}
      [] ty = "GETGRBYNAME" -> {e \in gdb : e.name = Text(key)}

\* the 32-bit value held in the four bytes b, read in the target's byte order
FromNe(b) ==
    IF endian = "little" THEN <<b[4] * 256 + b[3], b[2] * 256 + b[1]>>
    ELSE <<b[1] * 256 + b[2], b[3] * 256 + b[4]>>

\* the k-th 32-bit field of a response, counting from 0
Word(bytes, k) == FromNe(SubSeq(bytes, 4 * k + 1, 4 * k + 4))

Zeros(n) == [i \in 1..n |-> 0]

\* C4: for the four implemented types, a key that is empty, unterminated,
\* holds a nul before its last byte or (name lookups) is no valid text, and
\* a failing lookup, all end in an error without bytes; a response with
\* found = 0 is returned only for an accepted key whose lookup succeeded and
\* found nothing
C4_NoDowngrade ==
    [][(Calls("handle_request") /\ call'.ty \in Implemented) =>
         LET ty == call'.ty  key == call'.key IN
         /\ (\/ key = <<>>
             \/ ~NulTerminated(key)
             \/ HasNul(Text(key))
             \/ ty \in ByName /\ ~Utf8From(Text(key), 1)
             \/ call'.dbfail) => (~ret'.ok /\ ret'.val = <<>>)
         /\ (ret'.ok /\ Word(ret'.val, 1) = Num(0)) =>
                /\ Accepted(ty, key)
                /\ ~call'.dbfail
                /\ Matches(ty, key, passwd_db, group_db) = {}]_vars

\* C4 witness: a user-by-name request for "a" whose lookup failed returned
\* the lookup's error
C4_Witness ==
    /\ Handled /\ call.ty = "GETPWBYNAME" /\ call.key = <<97, 0>> /\ call.dbfail
    /\ ret = Err("Errno")

\* C5: encoding an absent result gives the header alone, every field zero
\* (9 fields for a user, 6 for a group); hence lookups by id and by name of
\* entries that do not exist give the same bytes within a record kind
C5_AbsentAllZero ==
    [][/\ (Calls("serialize_user") /\ ~call'.arg.some) => ret' = Ok(Zeros(9 * 4))
       /\ (Calls("serialize_group") /\ ~call'.arg.some) => ret' = Ok(Zeros(6 * 4))
       /\ (/\ Calls("handle_request") /\ call'.ty \in Implemented
           /\ Accepted(call'.ty, call'.key) /\ ~call'.dbfail
           /\ Matches(call'.ty, call'.key, passwd_db, group_db) = {}) =>
              ret' = Ok(Zeros(IF call'.ty \in {"GETPWBYUID", "GETPWBYNAME"}
                              THEN 9 * 4 ELSE 6 * 4))]_vars

\* C5 witness: user "a" is not in the database and the lookup of the name
\* "a" was answered with 36 zero bytes
C5_Witness ==
    /\ Handled /\ call.ty = "GETPWBYNAME" /\ call.key = <<97, 0>>
    /\ UserA \notin passwd_db
    /\ ret = Ok(Zeros(36))

\* C8: a request of an implemented type with an accepted key returns what
\* the encoder of its record kind gives for the entry the key names in the
\* database as it is at the call (the lookup's error when the lookup fails)
C8_LiveLookup ==
    [][(/\ Calls("handle_request") /\ call'.ty \in Implemented
        /\ Accepted(call'.ty, call'.key)) =>
         LET named == Matches(call'.ty, call'.key, passwd_db, group_db)
             user  == call'.ty \in {"GETPWBYUID", "GETPWBYNAME"}
             Encoded(found) ==
                 IF user THEN serialize_user(found) ELSE serialize_group(found)
         IN  IF call'.dbfail THEN ret' = Err("Errno")
             ELSE \/ named = {} /\ ret' = Encoded(None)
                  \/ \E e \in named : ret' = Encoded(Some(e))]_vars

\* C8 witness: the user with uid 11 is in the database and the lookup of
\* uid "11" returned that user's encoding
C8_Witness ==
    /\ Handled /\ call.ty = "GETPWBYUID" /\ call.key = <<49, 49, 0>>
    /\ User1 \in passwd_db
    /\ ret = serialize_user(Some(User1))

\* C10 as stated: every call of handle_request makes exactly one query
C10_ExactlyOneQuery == Handled => queries = 1

\* C10: a call of handle_request makes one query when the request type is
\* implemented and the key is accepted, and none otherwise
C10_OneQueryIfLookedUp ==
    Handled => queries = IF call.ty \in Implemented /\ Accepted(call.ty, call.key)
                         THEN 1 ELSE 0

\* C10 witness: a group-by-id request for "a" failed without a query
C10_Witness ==
    /\ Handled /\ call.ty = "GETGRBYGID" /\ call.key = <<97, 0>>
    /\ ~ret.ok /\ queries = 0

----------------------------------------------------------------------------
(* Properties: the encoders, read back as a client reads a response *)

NumLeq(a, b) == a[1] < b[1] \/ (a[1] = b[1] /\ a[2] <= b[2])

\* a - b, for b <= a
NumSub(a, b) ==
    IF a[2] >= b[2] THEN <<a[1] - b[1], a[2] - b[2]>>
    ELSE <<a[1] - b[1] - 1, a[2] + LIMB - b[2]>>

\* <<the first n bytes of s, the bytes after them>>
RECURSIVE SplitAt(_, _)
SplitAt(s, n) ==
    IF n = Num(0) \/ s = <<>> THEN <<<<>>, s>>
    ELSE IF NumLeq(AtomLen(Head(s)), n)
         THEN LET r == SplitAt(Tail(s), NumSub(n, AtomLen(Head(s))))
              IN  <<<<Head(s)>> \o r[1], r[2]>>
         ELSE LET k == n[1] * LIMB + n[2]
              IN  <<<<-k>>, <<Head(s) + k>> \o Tail(s)>>

\* s cut into consecutive pieces of the byte lengths ns; what is left over
\* is the last piece
RECURSIVE Cut(_, _)
Cut(s, ns) ==
    IF ns = <<>> THEN <<s>>
    ELSE LET r == SplitAt(s, Head(ns)) IN <<r[1]>> \o Cut(r[2], Tail(ns))

Terminated(t) == t \o <<0>>

LenWithNul(t) == NumAdd(len(t), Num(1))

PwHeaderLen == 9 * 4

GrHeaderLen == 6 * 4

\* C6: a present user that encodes gives the header (version marker,
\* found = 1, name_len, passwd_len, uid, gid, gecos_len, dir_len,
\* shell_len), then name, password, comment, home directory and shell, each
\* followed by one nul; every length is the field's byte length plus one,
\* and the output is as long as the header and the five lengths together
C6_UserLayout ==
    (pc = "done" /\ call.op = "serialize_user" /\ call.arg.some /\ ret.ok) =>
        LET u    == call.arg.val
            out  == ret.val
            lens == <<Word(out, 2), Word(out, 3), Word(out, 6), Word(out, 7),
                      Word(out, 8)>>
        IN  /\ Len(out) >= PwHeaderLen
            /\ Word(out, 0) = Num(VERSION)
            /\ Word(out, 1) = Num(1)
            /\ Word(out, 4) = u.uid
            /\ Word(out, 5) = u.gid
            /\ lens = <<LenWithNul(u.name), LenWithNul(u.passwd),
                        LenWithNul(u.gecos), LenWithNul(u.dir),
                        LenWithNul(u.shell)>>
            /\ Cut(SubSeq(out, PwHeaderLen + 1, Len(out)), lens)
                 = <<Terminated(u.name), Terminated(u.passwd),
                     Terminated(u.gecos), Terminated(u.dir),
                     Terminated(u.shell), <<>>>>
            /\ len(out) = NumAdd(Num(PwHeaderLen), NumSum(lens))

\* C6 witness: a user whose shell is 2^31 - 2 bytes long was encoded
C6_Witness ==
    /\ pc = "done" /\ call.op = "serialize_user" /\ call.arg.some /\ ret.ok
    /\ call.arg.val.shell = Longest
    /\ call.arg.val.gecos = <<97, 32, 98>>
    /\ call.arg.val.uid = <<65535, 65535>>

\* the k-th member of a member list
RECURSIVE MemberAt(_, _)
MemberAt(mem, k) ==
    IF k <= Head(mem).times THEN Head(mem).name
    ELSE MemberAt(Tail(mem), k - Head(mem).times)

\* the number of members of a member list (of fewer than 2^31 members)
RECURSIVE MemberCount(_)
MemberCount(mem) ==
    IF mem = <<>> THEN 0 ELSE Head(mem).times + MemberCount(Tail(mem))

\* C7: a present group that encodes gives the header (version marker,
\* found = 1, name_len, passwd_len = 2, gid, member_count), then one length
\* per member, then the name, "x" and the members, each followed by one
\* nul; the members and their lengths are in the record's order, none
\* dropped, and the password is "x" whatever the record holds
C7_GroupLayout ==
    (pc = "done" /\ call.op = "serialize_group" /\ call.arg.some /\ ret.ok) =>
        LET g     == call.arg.val
            out   == ret.val
            n     == MemberCount(g.mem)
            mlens == [i \in 1..n |-> Word(out, 5 + i)]
        IN  /\ Len(out) >= GrHeaderLen + 4 * n
            /\ Word(out, 0) = Num(VERSION)
            /\ Word(out, 1) = Num(1)
            /\ Word(out, 2) = LenWithNul(g.name)
            /\ Word(out, 3) = Num(2)
            /\ Word(out, 4) = g.gid
            /\ Word(out, 5) = Num(n)
            /\ mlens = [i \in 1..n |-> LenWithNul(MemberAt(g.mem, i))]
            /\ Cut(SubSeq(out, GrHeaderLen + 4 * n + 1, Len(out)),
                   <<Word(out, 2), Word(out, 3)>> \o mlens)
                 = <<Terminated(g.name), <<120, 0>>>>
                   \o [i \in 1..n |-> Terminated(MemberAt(g.mem, i))]
                   \o <<<<>>>>

\* C7 witness: a group with password "!!" and members a, c, a was encoded
C7_Witness ==
    /\ pc = "done" /\ call.op = "serialize_group" /\ call.arg.some /\ ret.ok
    /\ call.arg.val.passwd = <<33, 33>>
    /\ call.arg.val.mem = <<Member(<<97>>), Member(<<99>>), Member(<<97>>)>>

\* with its terminator the text is longer than 2^31 - 1 bytes
TooLong(t) == LenWithNul(t)[1] > I32_MAX_HI

UserTooLarge(u) == \E t \in {u.name, u.passwd, u.gecos, u.dir, u.shell} : TooLong(t)

GroupTooLarge(g) ==
    \/ TooLong(g.name)
    \/ \E i \in 1..Len(g.mem) : TooLong(g.mem[i].name)
    \/ mem_len(g.mem)[1] > I32_MAX_HI

UserHasNul(u) == HasNul(u.name) \/ HasNul(u.dir) \/ HasNul(u.shell)

GroupHasNul(g) == HasNul(g.name) \/ \E i \in 1..Len(g.mem) : HasNul(g.mem[i].name)

\* C9 as stated: a present record with a text field longer than 2^31 - 1
\* bytes with its terminator, or with more than 2^31 - 1 members, fails with
\* FieldTooLarge
C9_TooLargeFailsFieldTooLarge ==
    /\ (pc = "done" /\ call.op = "serialize_user" /\ call.arg.some
           /\ UserTooLarge(call.arg.val)) => ret = Err("TryFromIntError")
    /\ (pc = "done" /\ call.op = "serialize_group" /\ call.arg.some
           /\ GroupTooLarge(call.arg.val)) => ret = Err("TryFromIntError")

\* C9: such a record never encodes: the encoder returns an error and no
\* bytes, FieldTooLarge unless the name, home directory, shell or a member
\* name holds a nul byte, which is reported first as InvalidFieldContent
C9_TooLargeFails ==
    /\ (pc = "done" /\ call.op = "serialize_user" /\ call.arg.some
           /\ UserTooLarge(call.arg.val)) =>
          ret = Err(IF UserHasNul(call.arg.val) THEN "NulError"
                    ELSE "TryFromIntError")
    /\ (pc = "done" /\ call.op = "serialize_group" /\ call.arg.some
           /\ GroupTooLarge(call.arg.val)) =>
          ret = Err(IF GroupHasNul(call.arg.val) THEN "NulError"
                    ELSE "TryFromIntError")

\* C9 witness: a group of 2^31 members, every name short, failed with
\* FieldTooLarge
C9_Witness ==
    /\ pc = "done" /\ call.op = "serialize_group" /\ call.arg.some
    /\ call.arg.val.name = <<97>>
    /\ mem_len(call.arg.val.mem) = <<32768, 0>>
    /\ ret = Err("TryFromIntError")

====
